---- MODULE Spec2Model ----
(***************************************************************************)
(* Underfloor-heating simulator (galfdesign/simpol): the solve that the    *)
(* App component runs inside useMemo on the debounced parameter object.    *)
(*                                                                         *)
(* Units.  The sliders hand the setters whole millimetres divided by 1000, *)
(* and every preset thickness is a whole number of millimetres, so lengths *)
(* are kept in millimetres: 0.08 m is 80, 0.02 m is 20.  Quantities that   *)
(* are not whole (cell sizes, depths of rows, conductivities, resistances) *)
(* are exact rationals [n |-> numerator, d |-> denominator > 0].           *)
(*                                                                         *)
(* Double rounding.  The code works in IEEE doubles.  A rounding error is  *)
(* far smaller than the distance between two different values that occur   *)
(* here, so it can change the outcome of a comparison only where the exact *)
(* values are equal: Math.round on an exact half, and  y <= boundary  for  *)
(* a row whose exact depth is the boundary.  Those outcomes are inputs of  *)
(* the solve (the record fp), chosen nondeterministically.                 *)
(***************************************************************************)
EXTENDS Integers, Sequences, FiniteSets, TLC

\* debounced: the parameter object the solve runs on (what useDebounce
\*            returns);
\* results:   what the useMemo callback returned for it;
\* field:     the temperature array T of the relaxation and the position of
\*            its loops;
\* app:       the state of the App component (useState values, the value
\*            each useDebounce holds, its pending timers).
VARIABLES debounced, results, field, app

vars == <<debounced, results, field, app>>

(***************************************************************************)
(* Exact rationals.                                                        *)
(***************************************************************************)
Abs(x) == IF x < 0 THEN -x ELSE x

RECURSIVE GCD(_, _)
GCD(a, b) == IF b = 0 THEN a ELSE GCD(b, a % b)

Rat(n, d) ==
  LET g == GCD(Abs(n), d)
  IN  [n |-> n \div g, d |-> d \div g]

RInt(i) == [n |-> i, d |-> 1]
RAdd(a, b) == Rat(a.n * b.d + b.n * a.d, a.d * b.d)
RSub(a, b) == Rat(a.n * b.d - b.n * a.d, a.d * b.d)
RMul(a, b) == Rat(a.n * b.n, a.d * b.d)
RDiv(a, b) == IF b.n > 0 THEN Rat(a.n * b.d, a.d * b.n)
                         ELSE Rat(-(a.n * b.d), a.d * (-b.n))
RLe(a, b) == a.n * b.d <= b.n * a.d
RLt(a, b) == a.n * b.d < b.n * a.d
REq(a, b) == a.n * b.d = b.n * a.d
RMax(a, b) == IF RLe(a, b) THEN b ELSE a
RMin(a, b) == IF RLe(a, b) THEN a ELSE b
RFloor(a) == a.n \div a.d
IsHalf(a) == a.d = 2

Max(a, b) == IF a >= b THEN a ELSE b
Min(a, b) == IF a <= b THEN a ELSE b

\* A length in millimetres as metres, for the formulas that mix units.
Metres(mm) == Rat(mm, 1000)

(***************************************************************************)
(* Presets (thickness t in mm, conductivity k in W/(m K)).                 *)
(***************************************************************************)
PRESETS_SCREED == <<
  [id |-> "wet",       k |-> Rat(80, 100)],
  [id |-> "semi",      k |-> Rat(46, 100)],
  [id |-> "anhydrite", k |-> Rat(160, 100)],
  [id |-> "high",      k |-> Rat(150, 100)] >>

\* The list of the second copy of the component; the first copy has the same
\* entries without carpet10.
PRESETS_COVER == <<
  [id |-> "tile",      t |-> 14, k |-> Rat(110, 100)],
  [id |-> "laminate8", t |-> 10, k |-> Rat(11, 100)],
  [id |-> "carpet10",  t |-> 10, k |-> Rat(7, 100)],
  [id |-> "wood20",    t |-> 20, k |-> Rat(15, 100)],
  [id |-> "vinyl5",    t |-> 5,  k |-> Rat(25, 100)],
  [id |-> "none",      t |-> 0,  k |-> Rat(99, 1)] >>

PRESETS_INSULATION == <<
  [id |-> "eps30",  t |-> 30,  k |-> Rat(35, 1000)],
  [id |-> "eps50",  t |-> 50,  k |-> Rat(35, 1000)],
  [id |-> "eps100", t |-> 100, k |-> Rat(35, 1000)],
  [id |-> "xps50",  t |-> 50,  k |-> Rat(30, 1000)],
  [id |-> "none",   t |-> 0,   k |-> Rat(1, 1)] >>

\* hasT: the preset has a property t (the mats have none); phi in percent,
\* 0 where the preset has no phi.
PRESETS_UNDERLAY == <<
  [id |-> "none",    type |-> "none",   hasT |-> TRUE,  t |-> 0, phi |-> 0],
  [id |-> "foil",    type |-> "foil",   hasT |-> TRUE,  t |-> 0, phi |-> 0],
  [id |-> "bubble5", type |-> "bubble", hasT |-> TRUE,  t |-> 5, phi |-> 0],
  [id |-> "mat50",   type |-> "mat",    hasT |-> FALSE, t |-> 0, phi |-> 50],
  [id |-> "mat33",   type |-> "mat",    hasT |-> FALSE, t |-> 0, phi |-> 33] >>

Range(s) == {s[i] : i \in DOMAIN s}

\* under.t > 0  and  under.t || 0  for a preset that may have no t.
UnderTPositive(under) == under.hasT /\ under.t > 0
UnderTOrZero(under) == IF under.hasT THEN under.t ELSE 0

(***************************************************************************)
(* Parameter values of the debounced object.  The solve narrows spacing,   *)
(* diameter and screed thickness itself, so the sets hold values inside    *)
(* the ranges, on their ends and past them.                                *)
(***************************************************************************)
SpacingInputs == {50, 150, 450}
PipeODInputs == {10, 16, 25}
ScreedThkInputs == {10, 22, 50, 120}

Params ==
  [spacing : SpacingInputs, pipeOD : PipeODInputs, screedThk : ScreedThkInputs,
   screed : Range(PRESETS_SCREED), cover : Range(PRESETS_COVER),
   under : Range(PRESETS_UNDERLAY), insul : Range(PRESETS_INSULATION),
   nPipes : {3}]

(***************************************************************************)
(* The solve, geometry part: layer stack, pipe placement, grid height and  *)
(* row conductivities.  Every operator takes the debounced object p.       *)
(***************************************************************************)
S(p) == Max(80, Min(400, p.spacing))
\* D without its upper end.
D_NoUpperEnd(p) == Max(12, p.pipeOD)
D(p) == Max(12, Min(20, p.pipeOD))

tCover(p) == p.cover.t
tScreed(p) == Max(p.screedThk, 20)

IsBubble(p) == p.under.type = "bubble" /\ UnderTPositive(p.under)

\* tUnder that gives the mounting mats their 1 mm contact gap as a layer.
tUnder_MatGap(p) ==
  IF IsBubble(p) THEN p.under.t ELSE IF p.under.type = "mat" THEN 1 ELSE 0
tUnder(p) == IF IsBubble(p) THEN p.under.t ELSE 0

\* Rair_base of a 10 mm gap whatever the gap.
Rair_base_TenMm(p) == Rat(11, 100)
\* 0.11 m2K/W per 10 mm of gap.
Rair_base(p) == RMul(Rat(11, 100), RDiv(Metres(p.under.t), Rat(1, 100)))
rad_factor == Rat(16, 10)
Rgap(p) == RMul(Rair_base(p), rad_factor)

\* kUnder with the quotient inverted (Rgap / tGap).
kUnder_Inverted(p) ==
  IF IsBubble(p) THEN RMax(Rat(2, 1000), RDiv(Rgap(p), Metres(p.under.t)))
                 ELSE RInt(1)
kUnder(p) ==
  IF IsBubble(p) THEN RMax(Rat(2, 1000), RDiv(Metres(p.under.t), Rgap(p)))
                 ELSE RInt(1)

tIns(p) == p.insul.t
\* totalH that forgets the underlay.
totalH_WithoutUnderlay(p) == tCover(p) + tScreed(p) + tIns(p)
totalH(p) == tCover(p) + tScreed(p) + tUnder(p) + tIns(p)

yUnderTop(p) == tCover(p) + tScreed(p)
yInsulTop(p) == tCover(p) + tScreed(p) + tUnder(p)
minCover == 20
limitByScreed(p) == Max(0, tScreed(p) - D(p))
limitByCover(p) == Max(0, yInsulTop(p) - minCover - D(p))
maxDBot(p) == Max(0, Min(limitByScreed(p), limitByCover(p)))
dBotUser == 0
dBotRaw(p) ==
  Max(dBotUser, IF p.under.type # "none" THEN UnderTOrZero(p.under) ELSE 0)
dBot(p) == Min(dBotRaw(p), maxDBot(p))
\* pipeBottomY with the offset applied downwards.
pipeBottomY_OffsetDown(p) == yInsulTop(p) + dBot(p)
pipeBottomY(p) == yInsulTop(p) - dBot(p)
pipeCenterY(p) == RSub(RInt(pipeBottomY(p)), Rat(D(p), 2))
pipeTopY(p) == RSub(pipeCenterY(p), Rat(D(p), 2))
W(p) == Max(1, p.nPipes) * S(p)

\* Adaptive vertical resolution.
baseNY == 80
\* The base cell size of a grid of 40 rows.
dyBase_Coarse(p) == Rat(totalH(p), 39)
dyBase(p) == Rat(totalH(p), Max(2, baseNY - 1))
\* dyLimits that takes a candidate from every layer, present or not.
dyLimits_Unguarded(p) ==
  <<dyBase(p), Rat(tCover(p), 6), Rat(tScreed(p), 30), Rat(tUnder(p), 4),
    Rat(tIns(p), 10)>>
dyLimits(p) ==
  <<dyBase(p)>>
    \o (IF tCover(p) > 0 THEN <<Rat(tCover(p), 6)>> ELSE <<>>)
    \o <<Rat(tScreed(p), 30)>>
    \o (IF tUnder(p) > 0 THEN <<Rat(tUnder(p), 4)>> ELSE <<>>)
    \o (IF tIns(p) > 0 THEN <<Rat(tIns(p), 10)>> ELSE <<>>)

RECURSIVE MinOf(_)
MinOf(s) == IF Len(s) = 1 THEN s[1] ELSE RMin(s[1], MinOf(Tail(s)))

\* 1e-5 m is 1/100 mm.
dyTarget(p) == RMax(Rat(1, 100), MinOf(dyLimits(p)))

\* Math.round: to the nearest whole number, a half upwards; on an exact
\* half the double quotient may lie on either side (up tells which).
Round(x, up) ==
  IF IsHalf(x) THEN (IF up THEN RFloor(x) + 1 ELSE RFloor(x))
               ELSE RFloor(RAdd(x, Rat(1, 2)))

NYratio(p) == RDiv(RInt(totalH(p)), dyTarget(p))
NY(p, fp) == Max(3, Min(300, Round(NYratio(p), fp.roundUp) + 1))

NX == 144
dx(p) == Rat(W(p), NX - 1)
dy(p, fp) == Rat(totalH(p), NY(p, fp) - 1)

\* y <= b for row j at depth y and the i-th layer boundary b.  Row 0 is at 0
\* exactly.  Boundaries 2 and 3 are the same double when tUnder is 0.
EdgeLe(p, fp, j, y, i, b) ==
  IF j > 0 /\ REq(y, RInt(b))
    THEN fp.le[IF i = 3 /\ tUnder(p) = 0 THEN 2 ELSE i]
    ELSE RLe(y, RInt(b))

\* kRow whose screed test forgets the covering above the screed.
kRow_ScreedFromTop(p, fp) ==
  LET dyv == dy(p, fp)
      b1 == tCover(p)
      b3 == tCover(p) + tScreed(p) + tUnder(p)
      top == IF p.cover.t = 0 THEN p.screed.k ELSE p.cover.k
      ku == kUnder(p)
      bottom == IF p.insul.t > 0 THEN p.insul.k ELSE p.screed.k
  IN  [j \in 0..(NY(p, fp) - 1) |->
        LET y == RMul(RInt(j), dyv)
        IN  IF EdgeLe(p, fp, j, y, 1, b1) THEN top
            ELSE IF RLe(y, RInt(tScreed(p))) THEN p.screed.k
            ELSE IF EdgeLe(p, fp, j, y, 3, b3) THEN ku
            ELSE bottom]

\* The array kRow, one conductivity per grid row.
kRow(p, fp) ==
  LET dyv == dy(p, fp)
      b1 == tCover(p)
      b2 == tCover(p) + tScreed(p)
      b3 == tCover(p) + tScreed(p) + tUnder(p)
      top == IF p.cover.t = 0 THEN p.screed.k ELSE p.cover.k
      ku == kUnder(p)
      bottom == IF p.insul.t > 0 THEN p.insul.k ELSE p.screed.k
  IN  [j \in 0..(NY(p, fp) - 1) |->
        LET y == RMul(RInt(j), dyv)
        IN  IF EdgeLe(p, fp, j, y, 1, b1) THEN top
            ELSE IF EdgeLe(p, fp, j, y, 2, b2) THEN p.screed.k
            ELSE IF EdgeLe(p, fp, j, y, 3, b3) THEN ku
            ELSE bottom]

\* 1D resistance of the underlay (tUnder in metres).
Runder(p) ==
  IF tUnder(p) > 0 THEN RDiv(Metres(tUnder(p)), RMax(kUnder(p), Rat(1, 1000)))
                   ELSE RInt(0)

(***************************************************************************)
(* Outcomes of the comparisons that double rounding decides.               *)
(***************************************************************************)
RoundTie(p) == IsHalf(NYratio(p))

\* Some row below the top lies exactly on boundary b.
EdgeTie(p, fp, b) == b > 0 /\ (b * (NY(p, fp) - 1)) % totalH(p) = 0

Boundary(p, i) ==
  IF i = 1 THEN tCover(p)
  ELSE IF i = 2 THEN tCover(p) + tScreed(p)
  ELSE tCover(p) + tScreed(p) + tUnder(p)

FPChoices(p) ==
  { fp \in [roundUp : BOOLEAN, le : [1..3 -> BOOLEAN]] :
      /\ ~RoundTie(p) => fp.roundUp
      /\ \A i \in 1..3 : ~EdgeTie(p, fp, Boundary(p, i)) => fp.le[i]
      /\ tUnder(p) = 0 => fp.le[3] = fp.le[2] }

(***************************************************************************)
(* What one run of the useMemo callback returns (the fields of overlays,   *)
(* grid, underInfo and metrics1D that the layer stack and grid decide).    *)
(***************************************************************************)
Results(p, fp) ==
  [solved |-> TRUE, input |-> p, fp |-> fp,
   S |-> S(p), D |-> D(p), W |-> W(p),
   tCover |-> tCover(p), tScreed |-> tScreed(p), tUnder |-> tUnder(p),
   tIns |-> tIns(p), kUnder |-> kUnder(p), totalH |-> totalH(p),
   yUnderTop |-> yUnderTop(p), yInsulTop |-> yInsulTop(p),
   pipeBottomY |-> pipeBottomY(p), pipeCenterY |-> pipeCenterY(p),
   pipeTopY |-> pipeTopY(p),
   dyTarget |-> dyTarget(p), NY |-> NY(p, fp), dy |-> dy(p, fp),
   kRow |-> kRow(p, fp), Runder |-> Runder(p)]

NoResults == [solved |-> FALSE]

\* The specifications below look at one part of the component each; the
\* variables of the other parts hold these values throughout.
NoField == [made |-> FALSE]
NoApp == [mounted |-> FALSE]

(***************************************************************************)
(* The solve as a function of the parameter object: a parameter object is  *)
(* handed to the component and the useMemo callback runs on it.            *)
(***************************************************************************)
\* The component's own row constant (line 100); the NY of the solve is a
\* local of the useMemo callback and hides it there only.
OuterNY == 72

\* The draw effect's isotherm loops (showIso is on): the rows j whose cells
\* (rows j, j+1) are traced and the height y0/img.height each is drawn at.
Canvas(res) ==
  [mounted |-> FALSE,
   isoRows |-> 0..(OuterNY - 2),
   isoY |-> [j \in 0..(OuterNY - 2) |-> Rat(j, OuterNY - 1)],
   isoLastRead |-> (OuterNY - 1) * NX + (NX - 1),
   fieldLength |-> NX * res.NY]

SolveInit ==
  /\ debounced \in Params
  /\ results = NoResults
  /\ field = NoField
  /\ app = NoApp

Solve ==
  /\ ~results.solved
  /\ \E fp \in FPChoices(debounced) :
       /\ results' = Results(debounced, fp)
       /\ app' = Canvas(Results(debounced, fp))
  /\ UNCHANGED <<debounced, field>>

SolveNext == Solve

SolveSpec == SolveInit /\ [][SolveNext]_vars

(***************************************************************************)
(* Properties.  Each is about the state after a solve: results holds what  *)
(* the callback returned for results.input.                                *)
(***************************************************************************)
Solved == results.solved

\* Depth of grid row j of the solved grid.
RowY(j) == RMul(RInt(j), results.dy)
Rows == 0..(results.NY - 1)
SolvedKRow(j) == results.kRow[j]

\* C2: input clamping.  For every spacing, pipe diameter and screed
\* thickness, also past the slider ends, the solve uses S = spacing
\* narrowed to [80, 400] mm, D = diameter narrowed to [12, 20] mm and
\* tScreed = max(screedThk, 20 mm): a value inside its range unchanged, a
\* value outside replaced by the nearest end.
C2_InputClamping ==
  Solved =>
       LET p == results.input
       IN  /\ results.S \in 80..400
           /\ p.spacing \in 80..400 => results.S = p.spacing
           /\ p.spacing < 80 => results.S = 80
           /\ p.spacing > 400 => results.S = 400
           /\ results.D \in 12..20
           /\ p.pipeOD \in 12..20 => results.D = p.pipeOD
           /\ p.pipeOD < 12 => results.D = 12
           /\ p.pipeOD > 20 => results.D = 20
           /\ results.tScreed >= 20
           /\ p.screedThk >= 20 => results.tScreed = p.screedThk
           /\ p.screedThk < 20 => results.tScreed = 20

\* A solve in which all three inputs lay outside their ranges.
C2_Witness ==
  /\ Solved
  /\ results.input.spacing < 80 /\ results.S = 80
  /\ results.input.pipeOD > 20 /\ results.D = 20
  /\ results.input.screedThk < 20 /\ results.tScreed = 20

\* C3: layer stack.  totalH is the sum of the four thicknesses and is at
\* least 20 mm (so > 0), and the layer boundaries are ordered:
\* 0 <= tCover <= yUnderTop = tCover + tScreed <= yInsulTop
\*   = yUnderTop + tUnder <= totalH.
C3_LayerStack ==
  Solved =>
    /\ results.totalH
         = results.tCover + results.tScreed + results.tUnder + results.tIns
    /\ results.totalH >= 20
    /\ results.totalH > 0
    /\ 0 <= results.tCover
    /\ results.tCover <= results.yUnderTop
    /\ results.yUnderTop = results.tCover + results.tScreed
    /\ results.yUnderTop <= results.yInsulTop
    /\ results.yInsulTop = results.yUnderTop + results.tUnder
    /\ results.yInsulTop <= results.totalH

\* A solved stack with a bubble-foil underlay and no insulation, where the
\* top of the insulation is the bottom of the stack.
C3_Witness ==
  /\ Solved
  /\ results.tUnder > 0 /\ results.tCover > 0 /\ results.tIns = 0
  /\ results.yInsulTop = results.totalH

C5_PipeClearOfCoverAndInsulation ==
  Solved =>
    /\ RLe(RInt(results.tCover), results.pipeTopY)
    /\ results.pipeBottomY <= results.yInsulTop

\* A solve with a bubble-foil underlay in which the embedment clamp acted:
\* the pipe could not be lifted by the whole gap thickness.
C5_Witness ==
  /\ Solved
  /\ results.tUnder > 0
  /\ dBot(results.input) < dBotRaw(results.input)
  /\ results.pipeBottomY <= results.yInsulTop

\* The target cell size as the claim states it: the least of totalH/79 and
\* t/cells over the layers of positive thickness.
CellCandidates(r) ==
  {Rat(r.totalH, 79)}
    \cup {Rat(l[1], l[2]) :
            l \in {m \in {<<r.tCover, 6>>, <<r.tScreed, 30>>, <<r.tUnder, 4>>,
                          <<r.tIns, 10>>} : m[1] > 0}}
LeastCandidate(r) ==
  CHOOSE c \in CellCandidates(r) : \A e \in CellCandidates(r) : RLe(c, e)

\* C6: grid height.  The target cell size is the least of totalH/79 and one
\* candidate per layer of positive thickness (a layer of thickness 0 gives
\* none); NY = round(totalH / target) + 1 limited to [3, 300], so
\* 3 <= NY <= 300.
C6_GridHeight ==
  Solved =>
    /\ results.dyTarget = LeastCandidate(results)
    /\ results.NY
         = Max(3, Min(300,
               Round(RDiv(RInt(results.totalH), LeastCandidate(results)),
                     results.fp.roundUp) + 1))
    /\ results.NY >= 3
    /\ results.NY <= 300

\* A solve of a stack without covering and without insulation, whose grid
\* height lies strictly between the caps.
C6_Witness ==
  /\ Solved
  /\ results.tCover = 0 /\ results.tIns = 0 /\ results.tUnder = 0
  /\ results.NY > 3 /\ results.NY < 300

\* NY before the caps are applied.
UncappedNY == Round(NYratio(results.input), results.fp.roundUp) + 1
\* Layer thickness t spans at least n cells of the actual cell size dy.
SpansCells(t, n) == RLe(RInt(n), RDiv(RInt(t), results.dy))

\* C7: minimum cells per layer.  Whenever NY is not limited by the caps,
\* every layer of positive thickness spans at least its minimum number of
\* cells of size dy = totalH/(NY-1): 6 covering, 30 screed, 4 underlay,
\* 10 insulation.
C7_MinCellsPerLayer ==
  (Solved /\ UncappedNY >= 3 /\ UncappedNY <= 300) =>
    /\ results.tCover > 0 => SpansCells(results.tCover, 6)
    /\ results.tScreed > 0 => SpansCells(results.tScreed, 30)
    /\ results.tUnder > 0 => SpansCells(results.tUnder, 4)
    /\ results.tIns > 0 => SpansCells(results.tIns, 10)

\* Row j lies strictly between depths a and b.
StrictlyInside(j, a, b) == RLt(RInt(a), RowY(j)) /\ RLt(RowY(j), RInt(b))

\* C8: layer-to-conductivity mapping.  A row whose depth lies strictly
\* inside a layer has that layer's conductivity: cover.k in the covering,
\* screed.k in the screed, kUnder in the underlay, insul.k in the insulation.
C8_LayerConductivity ==
  Solved =>
    \A j \in Rows :
      /\ StrictlyInside(j, 0, results.tCover)
           => SolvedKRow(j) = results.input.cover.k
      /\ StrictlyInside(j, results.tCover, results.yUnderTop)
           => SolvedKRow(j) = results.input.screed.k
      /\ StrictlyInside(j, results.yUnderTop, results.yInsulTop)
           => SolvedKRow(j) = results.kUnder
      /\ StrictlyInside(j, results.yInsulTop, results.totalH)
           => SolvedKRow(j) = results.input.insul.k

\* A solved stack of four layers, each with a row strictly inside it.
C8_Witness ==
  /\ Solved
  /\ \E j \in Rows : StrictlyInside(j, 0, results.tCover)
  /\ \E j \in Rows : StrictlyInside(j, results.tCover, results.yUnderTop)
  /\ \E j \in Rows : StrictlyInside(j, results.yUnderTop, results.yInsulTop)
  /\ \E j \in Rows : StrictlyInside(j, results.yInsulTop, results.totalH)

\* C9: monotonic layering.  The row conductivity never increases with
\* depth: kRow[j+1] <= kRow[j] for every row j from 0 to NY-2.
C9_NonIncreasingWithDepth ==
  Solved =>
    \A j \in 0..(results.NY - 2) : RLe(SolvedKRow(j + 1), SolvedKRow(j))

\* C9 as amended.  kRow[j+1] <= kRow[j] for every row j that lies below the
\* covering, and for the rows of the covering too when the covering is absent
\* or conducts at least as well as the screed; the one exception is the
\* bottom row of a stack with bubble foil and no insulation, which lies on
\* the lower face of the foil and may take screed.k.
C9_NonIncreasingBelowCovering ==
  Solved =>
    \A j \in 0..(results.NY - 2) :
      ( /\ \/ RLt(RInt(results.tCover), RowY(j))
           \/ results.tCover = 0
           \/ RLe(results.input.screed.k, results.input.cover.k)
        /\ ~(results.tUnder > 0 /\ results.tIns = 0 /\ j + 1 = results.NY - 1) )
      => RLe(SolvedKRow(j + 1), SolvedKRow(j))

\* A solved stack of four layers under a covering that conducts worse than
\* the screed: the conductivity steps down screed -> foil -> insulation.
C9_Witness ==
  /\ Solved
  /\ results.tCover > 0 /\ results.tUnder > 0 /\ results.tIns > 0
  /\ RLt(results.input.cover.k, results.input.screed.k)
  /\ \E j \in 0..(results.NY - 2) :
       /\ RLt(RInt(results.tCover), RowY(j))
       /\ RLt(SolvedKRow(j + 1), SolvedKRow(j))
  /\ \E j \in 0..(results.NY - 2) : SolvedKRow(j + 1) = results.kUnder
                                    /\ RLt(results.kUnder, SolvedKRow(j))

\* C10: underlay variants.  For the types none, foil and mat tUnder is 0, no
\* grid row has the underlay conductivity and Runder is 0; tUnder > 0 only
\* for a bubble underlay with t > 0, and then tUnder = under.t.
C10_UnderlayVariants ==
  Solved =>
    LET under == results.input.under
    IN  /\ under.type \in {"none", "foil", "mat"} =>
             /\ results.tUnder = 0
             /\ \A j \in Rows : SolvedKRow(j) # results.kUnder
             /\ results.Runder = RInt(0)
        /\ results.tUnder > 0 =>
             /\ under.type = "bubble" /\ under.hasT /\ under.t > 0
             /\ results.tUnder = under.t

\* A solve of a mounting mat: no underlay layer, and a grid row lies exactly
\* on the screed's lower face, where the underlay test is decided.
C10_Witness ==
  /\ Solved
  /\ results.input.under.type = "mat"
  /\ results.tUnder = 0
  /\ \E j \in Rows : REq(RowY(j), RInt(results.yUnderTop))

\* C23: isotherms cover the whole field.  The isotherm tracing visits
\* every pair of adjacent rows j, j+1 for j = 0..NY-2 with NY the row count
\* of the solved grid, and draws row j at height j/(NY-1) of the image.
C23_IsothermsCoverField ==
  Solved =>
    /\ app.isoRows = 0..(results.NY - 2)
    /\ \A j \in app.isoRows : REq(app.isoY[j], Rat(j, results.NY - 1))

\* C28: row count floor.  For every parameter set NY >= 80: the lower cap
\* 3 of the clamp is never the active bound (NY is the rounded quotient
\* plus one, limited by 300 only), and dy <= totalH/79.
C28_RowCountFloor ==
  Solved =>
    /\ results.NY >= 80
    /\ results.NY
         = Min(300, Round(RDiv(RInt(results.totalH), results.dyTarget),
                          results.fp.roundUp) + 1)
    /\ RLe(results.dy, Rat(results.totalH, 79))

\* A solve whose target is totalH/79 itself: NY is exactly 80.
C28_Witness ==
  /\ Solved
  /\ results.NY = 80
  /\ REq(results.dyTarget, Rat(results.totalH, 79))
  /\ REq(results.dy, Rat(results.totalH, 79))

(***************************************************************************)
(* The loop thermal model (computePipeTemperatures and its arguments).     *)
(*                                                                         *)
(* Temperatures are exact rationals in degrees C, lengths along the loop   *)
(* exact rationals in metres.  Math.log and Math.exp are not evaluated:    *)
(* with Lambda = ln(num/den), a pipe temperature is kept as                *)
(*     Tair + dT * exp(-(a * Lambda + b))                                  *)
(* with exact rationals a and b, and two such temperatures are compared    *)
(* through their exponents, exp being strictly decreasing in the exponent. *)
(* Where a comparison needs the size of Lambda, the bounds                 *)
(*     1 - den/num <= ln(num/den) <= num/den - 1                           *)
(* decide it, and where they do not, both outcomes are taken.              *)
(***************************************************************************)

\* an/ad <= bn/bd for an, bn >= 0 and ad, bd > 0, by whole parts and
\* remainders (no product is formed, so 1e-6 can stand next to a temperature).
RECURSIVE FracLe(_, _, _, _)
FracLe(an, ad, bn, bd) ==
  LET qa == an \div ad
      qb == bn \div bd
      ra == an % ad
      rb == bn % bd
  IN  IF qa # qb THEN qa < qb
      ELSE IF ra = 0 THEN TRUE
      ELSE IF rb = 0 THEN FALSE
      ELSE FracLe(bd, rb, ad, ra)

RLeq(a, b) ==
  IF a.n < 0 /\ b.n >= 0 THEN TRUE
  ELSE IF a.n >= 0 /\ b.n < 0 THEN FALSE
  ELSE IF a.n >= 0 THEN FracLe(a.n, a.d, b.n, b.d)
  ELSE FracLe(-b.n, b.d, -a.n, a.d)
RLess(a, b) == ~RLeq(b, a)
RMaxq(a, b) == IF RLeq(a, b) THEN b ELSE a
RMinq(a, b) == IF RLeq(a, b) THEN a ELSE b

\* 1e-6
Micro == Rat(1, 1000000)

\* Inputs of the loop model: temperatures on slider values and on a value
\* the auto-return effect writes (two decimals), cut fractions inside and
\* past [0, 0.5], loop lengths from the fixed area (9 / S) and from
\* loopLength, the 5 m floor and a length under it included.
TsInputs == {Rat(25, 1), Rat(45, 1), Rat(55, 1)}
TrInputs == {Rat(20, 1), Rat(40, 1), Rat(4499, 100), Rat(50, 1)}
TairInputs == {Rat(10, 1), Rat(22, 1), Rat(30, 1)}
LoopPosFracInputs ==
  {Rat(-1, 10), Rat(0, 1), Rat(1, 100), Rat(1, 4), Rat(1, 2), Rat(7, 10)}
LoopLengthInputs == {Rat(3, 1), Rat(5, 1), Rat(80, 1)}
LoopSpacingInputs == {80, 150, 400}

LoopParams ==
  [Ts : TsInputs, Tr : TrInputs, Tair : TairInputs,
   layout : {"spiral", "meander"}, loopPosFrac : LoopPosFracInputs,
   spacing : LoopSpacingInputs, nPipes : {3}, areaM2 : {Rat(9, 1)},
   useFixedArea : {TRUE}, loopLength : {Rat(80, 1)}]
  \cup
  [Ts : TsInputs, Tr : TrInputs, Tair : TairInputs,
   layout : {"spiral", "meander"}, loopPosFrac : LoopPosFracInputs,
   spacing : {150}, nPipes : {3}, areaM2 : {Rat(9, 1)},
   useFixedArea : {FALSE}, loopLength : LoopLengthInputs]

L_eff(p) ==
  RMaxq(RInt(5),
        IF p.useFixedArea
          THEN RDiv(RMaxq(Rat(1, 1000), p.areaM2),
                    RMaxq(Rat(2, 100), Metres(S(p))))
          ELSE p.loopLength)

xPos(p) ==
  RMul(RMaxq(RInt(0), RMinq(Rat(1, 2), p.loopPosFrac)),
       RMaxq(Micro, L_eff(p)))

num(Ts, Tair) == RMaxq(Micro, RSub(Ts, Tair))
den(Tr, Tair) == RMaxq(Micro, RSub(Tr, Tair))

\* Bounds of Lambda = ln(num/den), used only for num > den.
LambdaLow(Ts, Tr, Tair) ==
  RDiv(RSub(num(Ts, Tair), den(Tr, Tair)), num(Ts, Tair))
LambdaHigh(Ts, Tr, Tair) ==
  RDiv(RSub(num(Ts, Tair), den(Tr, Tair)), den(Tr, Tair))

\* alpha = max(1e-6, Lambda / max(1e-6, L)): the outcomes of the outer max.
\* TRUE: alpha is the floor 1e-6; FALSE: alpha is Lambda / max(1e-6, L).
AlphaFloored(Ts, Tr, Tair, L) ==
  LET Lc == RMaxq(Micro, L)
  IN  IF RLeq(num(Ts, Tair), den(Tr, Tair)) THEN {TRUE}
      ELSE IF RLeq(RMul(Micro, Lc), LambdaLow(Ts, Tr, Tair)) THEN {FALSE}
      ELSE IF RLess(LambdaHigh(Ts, Tr, Tair), RMul(Micro, Lc)) THEN {TRUE}
      ELSE BOOLEAN

\* No difference of travelled length between neighbouring branches.
deltaAdj_Zero(layout) == RInt(0)
deltaAdj(layout) == IF layout = "spiral" THEN RInt(2) ELSE RInt(3)

\* clamp without the lower end.
clamp_NoLowerEnd(L, v) == RMinq(L, v)
clamp(L, v) == RMaxq(RInt(0), RMinq(L, v))

\* Tair + (Ts - Tair) * exp(-alpha * s) for a clamped length s.
Decay(Ts, Tair, L, floored, s) ==
  [kind |-> "decay", Tair |-> Tair, dT |-> RSub(Ts, Tair), s |-> s,
   a |-> IF floored THEN RInt(0) ELSE RDiv(s, RMaxq(Micro, L)),
   b |-> IF floored THEN RMul(Micro, s) ELSE RInt(0)]

Ts_at(Ts, Tair, L, floored, s) == Decay(Ts, Tair, L, floored, clamp(L, s))
Tr_at(Ts, Tair, L, floored, s) ==
  Decay(Ts, Tair, L, floored, clamp(L, RSub(L, s)))

computePipeTemperatures(n, Ts, Tr, layout, Tair, L, x, floored) ==
  IF n <= 1
    THEN << [kind |-> "mean", v |-> RMul(Rat(1, 2), RAdd(Ts, Tr))] >>
    ELSE LET left == Ts_at(Ts, Tair, L, floored, RSub(x, deltaAdj(layout)))
             right == Ts_at(Ts, Tair, L, floored, RAdd(x, deltaAdj(layout)))
             mid == IF layout = "meander"
                      THEN Ts_at(Ts, Tair, L, floored, x)
                      ELSE Tr_at(Ts, Tair, L, floored, x)
         IN  SubSeq(<<left, mid, right>>, 1, Min(3, n))

\* A pipe whose exponent is Lambda itself gets Tair + dT * exp(-ln(num/den)),
\* the round trip of den/num through Math.log and Math.exp: the double that
\* comes back is den/num or a neighbour of it on either side.
RoundTrip(t) == t.kind = "decay" /\ t.a = RInt(1) /\ t.b = RInt(0)

LoopResults(p, floored, below) ==
  LET L == L_eff(p)
      x == xPos(p)
  IN  [solved |-> TRUE, input |-> p, L |-> L, xPos |-> x,
       alphaFloored |-> floored, roundTripBelow |-> below,
       TpipeArr |-> computePipeTemperatures(p.nPipes, p.Ts, p.Tr, p.layout,
                                            p.Tair, L, x, floored)]

LoopInit ==
  /\ debounced \in LoopParams
  /\ results = NoResults
  /\ field = NoField
  /\ app = NoApp

LoopSolve ==
  /\ ~results.solved
  /\ \E floored \in AlphaFloored(debounced.Ts, debounced.Tr, debounced.Tair,
                                 L_eff(debounced)) :
       \E below \in BOOLEAN :
         /\ results' = LoopResults(debounced, floored, below)
         /\ below => \E k \in DOMAIN results'.TpipeArr :
                        RoundTrip(results'.TpipeArr[k])
  /\ UNCHANGED <<debounced, field, app>>

LoopNext == LoopSolve

LoopSpec == LoopInit /\ [][LoopNext]_vars

\* Ts > Tr > Tair for the solved input.
LoopPremise ==
  /\ RLess(results.input.Tr, results.input.Ts)
  /\ RLess(results.input.Tair, results.input.Tr)

\* alpha is a positive finite number: the floor 1e-6, or Lambda / L with
\* Lambda = ln(num/den) > 0 and L >= 5.
AlphaPositive ==
  \/ results.alphaFloored
  \/ /\ RLess(den(results.input.Tr, results.input.Tair),
              num(results.input.Ts, results.input.Tair))
     /\ RLeq(RInt(5), results.L)

\* t <= Ts: with dT > 0, the exponent is not negative.
NotAboveTs(t) ==
  IF t.kind = "mean" THEN RLeq(t.v, results.input.Ts)
  ELSE RLeq(RInt(0), t.a) /\ RLeq(RInt(0), t.b)

\* The exponent is under Lambda: the exact value is above Tr.
AboveTrExact(t) ==
  IF results.alphaFloored
    THEN RLess(t.b, LambdaLow(results.input.Ts, results.input.Tr,
                              results.input.Tair))
    ELSE RLess(t.a, RInt(1))

\* Tr <= t as the doubles have it.
NotBelowTr(t) ==
  IF t.kind = "mean" THEN RLeq(results.input.Tr, t.v)
  ELSE IF RoundTrip(t) /\ ~results.alphaFloored THEN ~results.roundTripBelow
  ELSE AboveTrExact(t)

Pipes == DOMAIN results.TpipeArr

\* C11: loop thermal model bounds.  For 3 pipes, both layouts, every cut
\* fraction and every loop length L >= 5 (L = 5 included), if Ts > Tr > Tair
\* then alpha is finite and strictly positive and every pipe temperature T
\* of the profile satisfies Tr <= T <= Ts.
C11_PipeTemperatureBounds ==
  (Solved /\ LoopPremise) =>
    /\ AlphaPositive
    /\ \A k \in Pipes : /\ NotAboveTs(results.TpipeArr[k])
                        /\ NotBelowTr(results.TpipeArr[k])

\* C11 as amended: alpha is finite and strictly positive, every pipe
\* temperature is at most Ts, a pipe whose clamped travelled length is
\* under L is above Tr, and a pipe whose clamped travelled length is L gets
\* the round trip Tair + (Ts - Tair) * exp(-alpha * L), which is Tr up to
\* the rounding of the doubles.
C11_PipeTemperatureBoundsUpToRounding ==
  (Solved /\ LoopPremise) =>
    /\ AlphaPositive
    /\ ~results.alphaFloored
    /\ \A k \in Pipes :
         LET t == results.TpipeArr[k]
         IN  /\ NotAboveTs(t)
             /\ RLess(t.s, results.L) => AboveTrExact(t)
             /\ REq(t.s, results.L) => RoundTrip(t)

\* The solve of a spiral cut at the collector with L_eff on its 5 m floor:
\* the centre pipe has travelled the whole loop, and its double has come
\* out under Tr.
C11_Witness ==
  /\ Solved /\ LoopPremise
  /\ results.input.layout = "spiral"
  /\ REq(results.L, RInt(5))
  /\ REq(results.xPos, RInt(0))
  /\ RoundTrip(results.TpipeArr[2])
  /\ results.roundTripBelow
  /\ AboveTrExact(results.TpipeArr[3])

\* Pipe t is not warmer than pipe u: with Ts > Tair and alpha > 0 the
\* temperature falls with the exponent, and the doubles keep that order.
NotWarmer(t, u) == RLeq(u.a, t.a) /\ RLeq(u.b, t.b)

\* The spiral cut of the claim: Ts > Tr > Tair, cut fraction in [0, 0.5].
SpiralCut ==
  /\ Solved /\ LoopPremise
  /\ results.input.layout = "spiral"
  /\ RLeq(RInt(0), results.input.loopPosFrac)
  /\ RLeq(results.input.loopPosFrac, Rat(1, 2))

\* C26 as stated: in the spiral layout the centre pipe is never warmer
\* than either outer pipe.
C26_CentrePipeCoolest ==
  SpiralCut =>
    /\ NotWarmer(results.TpipeArr[2], results.TpipeArr[1])
    /\ NotWarmer(results.TpipeArr[2], results.TpipeArr[3])

\* C26 (amended): the centre pipe (travelled length L - x) is never warmer
\* than the left outer pipe (max(0, x - 2)); it is not warmer than the
\* right outer pipe (x + 2) exactly when x + 2 <= L - x, and warmer than it
\* when the cut lies within 1 m of the middle of the loop (L - x < x + 2).
C26_CentrePipeAgainstOuterPipes ==
  SpiralCut =>
    LET left == results.TpipeArr[1]
        mid == results.TpipeArr[2]
        right == results.TpipeArr[3]
        far == RAdd(results.xPos, RInt(2))
        back == RSub(results.L, results.xPos)
    IN  /\ ~results.alphaFloored
        /\ REq(mid.s, back)
        /\ NotWarmer(mid, left)
        /\ RLeq(far, back) => NotWarmer(mid, right)
        /\ RLess(back, far) =>
             /\ REq(right.s, far)
             /\ ~NotWarmer(mid, right)
             /\ NotWarmer(right, mid)

\* The default cut in the middle of a 60 m loop: the centre pipe has
\* travelled 30 m, the right outer pipe 32 m and is the colder one.
C26_Witness ==
  /\ SpiralCut
  /\ results.input.loopPosFrac = Rat(1, 2)
  /\ REq(results.L, RInt(60))
  /\ REq(results.TpipeArr[2].s, RInt(30))
  /\ REq(results.TpipeArr[3].s, RInt(32))
  /\ ~NotWarmer(results.TpipeArr[2], results.TpipeArr[3])

(***************************************************************************)
(* The effective heat-transfer coefficient of the top surface.             *)
(*                                                                         *)
(* Math.pow(m, 0.6) is NaN for m < 0, 0 at 0, 1 at 1 and an irrational     *)
(* number elsewhere on the inputs used here; the irrational values are     *)
(* kept by their argument and compared through it (m^0.6 increases with    *)
(* m).                                                                     *)
(***************************************************************************)
Pow06(m) ==
  [nan |-> RLess(m, RInt(0)),
   exact |-> REq(m, RInt(0)) \/ REq(m, RInt(1)),
   arg |-> m]

\* hEff with the velocity handed to Math.pow as it is.
hEff_NoMax(p) == [hTop |-> p.hTop, pow |-> Pow06(p.airVel)]
\* hTop + 6.0 * pow
hEff(p) == [hTop |-> p.hTop, pow |-> Pow06(RMaxq(RInt(0), p.airVel))]

\* h is the number v.
HEffIs(h, v) ==
  /\ ~h.pow.nan
  /\ h.pow.exact
  /\ REq(RAdd(h.hTop, RMul(RInt(6), h.pow.arg)), v)

\* g <= h for two coefficients with the same hTop.
HEffLe(g, h) ==
  /\ ~g.pow.nan /\ ~h.pow.nan
  /\ REq(g.hTop, h.hTop)
  /\ RLeq(g.pow.arg, h.pow.arg)

\* hTop on slider values, airVel inside the slider range 0..1, on its ends,
\* under 0 and over 1.
HTopInputs == {Rat(6, 1), Rat(17, 2), Rat(10, 1), Rat(12, 1), Rat(14, 1)}
AirVelInputs ==
  {Rat(-1, 1), Rat(-1, 20), Rat(0, 1), Rat(1, 20), Rat(1, 4), Rat(1, 2),
   Rat(3, 4), Rat(19, 20), Rat(1, 1), Rat(3, 2), Rat(2, 1)}

HEffParams == [hTop : HTopInputs, airVel : AirVelInputs]

NoBefore == [solved |-> FALSE]

\* before: the input and the coefficient of the run before this one.
HEffResults(p, before) ==
  [solved |-> TRUE, input |-> p, hEff |-> hEff(p), before |-> before]

HEffInit ==
  /\ debounced \in HEffParams
  /\ results = NoResults
  /\ field = NoField
  /\ app = NoApp

\* The first render: the memo runs on the debounced object.
HEffSolve ==
  /\ ~results.solved
  /\ results' = HEffResults(debounced, NoBefore)
  /\ UNCHANGED <<debounced, field, app>>

\* A render in which useDebounce returns another object: the memo runs
\* again in that render.
HEffSolveAgain ==
  /\ results.solved
  /\ \E p \in HEffParams \ {debounced} :
       /\ debounced' = p
       /\ results' = HEffResults(p, [solved |-> TRUE,
                                     input |-> results.input,
                                     hEff |-> results.hEff])
  /\ UNCHANGED <<field, app>>

HEffNext == HEffSolve \/ HEffSolveAgain

HEffSpec == HEffInit /\ [][HEffNext]_vars

\* C12: effective top heat-transfer coefficient.  hEff = hTop for every
\* airVel <= 0 (negative velocities included), hEff = hTop + 6 at
\* airVel = 1 (10 becomes 16), and of two solves with the same hTop the one
\* with the larger airVel never has the smaller hEff.
C12_EffectiveCoefficient ==
  Solved =>
    /\ RLeq(results.input.airVel, RInt(0)) =>
         HEffIs(results.hEff, results.input.hTop)
    /\ REq(results.input.airVel, RInt(1)) =>
         HEffIs(results.hEff, RAdd(results.input.hTop, RInt(6)))
    /\ (REq(results.input.airVel, RInt(1))
        /\ REq(results.input.hTop, RInt(10))) =>
         HEffIs(results.hEff, RInt(16))
    /\ (/\ results.before.solved
        /\ REq(results.before.input.hTop, results.input.hTop)
        /\ RLeq(results.before.input.airVel, results.input.airVel)) =>
         HEffLe(results.before.hEff, results.hEff)

\* A solve at hTop = 10 and airVel = 1 (hEff = 16) that follows a solve
\* with the same hTop and a negative velocity (hEff = 10).
C12_Witness ==
  /\ Solved
  /\ REq(results.input.hTop, RInt(10))
  /\ REq(results.input.airVel, RInt(1))
  /\ HEffIs(results.hEff, RInt(16))
  /\ results.before.solved
  /\ RLess(results.before.input.airVel, RInt(0))
  /\ HEffIs(results.before.hEff, RInt(10))

(***************************************************************************)
(* The metrics read off the relaxed field (fluxes, bare-foot gradient).    *)
(*                                                                         *)
(* The metrics read three rows of T: row 0 (the surface), row NY-2 and row *)
(* NY-1.  The relaxation that fills T is not evaluated here: the rows are  *)
(* drawn from a family of profiles (a level over Tair with bumps of a      *)
(* given period on the surface, belowT on the bottom row, a level over or  *)
(* under belowT on the row above it), and the metrics are computed on them *)
(* as the code computes them.  Fluxes are exact rationals in W/m2.         *)
(***************************************************************************)
Columns == 0..(NX - 1)

RECURSIVE SumOver(_, _, _)
\* f[a] + ... + f[b], by halves
SumOver(f, a, b) ==
  IF a = b THEN f[a]
  ELSE LET m == (a + b) \div 2
       IN  RAdd(SumOver(f, a, m), SumOver(f, m + 1, b))
\* f[0] + ... + f[n]
SumUpTo(f, n) == SumOver(f, 0, n)

RAbs(a) == [n |-> Abs(a.n), d |-> a.d]

RECURSIVE MaxOver(_, _, _)
\* max(f[a], ..., f[b]), by halves
MaxOver(f, a, b) ==
  IF a = b THEN f[a]
  ELSE LET m == (a + b) \div 2
       IN  RMaxq(MaxOver(f, a, m), MaxOver(f, m + 1, b))
\* max(0, f[0], ..., f[n])
MaxUpTo(f, n) == IF n < 0 THEN RInt(0) ELSE RMaxq(RInt(0), MaxOver(f, 0, n))

\* The default parameter object with another spacing, insulation, hTop,
\* airVel, Tair and belowT.
MetricsParams ==
  [spacing : {80, 150, 400}, pipeOD : {16}, screedThk : {50},
   screed : {PRESETS_SCREED[2]}, cover : {PRESETS_COVER[1]},
   under : {PRESETS_UNDERLAY[1]},
   insul : {PRESETS_INSULATION[3], PRESETS_INSULATION[5]}, nPipes : {3},
   hTop : {Rat(10, 1)}, airVel : {Rat(0, 1), Rat(1, 1)},
   Tair : {Rat(22, 1)}, belowT : {Rat(18, 1)}]

\* Surface level over Tair, height and period (in columns) of its bumps;
\* level of row NY-2 over belowT.
SurfaceLevels == {-2, 0, 6}
BumpHeights == {0, 1}
BumpPeriods == {16, 48}
PrevLevels == {-2, 0, 3}

Profile(p, level, height, period, prev) ==
  [made |-> TRUE,
   top |-> [i \in Columns |->
              RAdd(p.Tair, RInt(level + (IF i % period = 0 THEN height
                                                           ELSE 0)))],
   prev |-> [i \in Columns |-> RAdd(p.belowT, RInt(prev))],
   bottom |-> [i \in Columns |-> p.belowT]]

Profiles(p) ==
  {Profile(p, level, height, period, prev) :
     level \in SurfaceLevels, height \in BumpHeights,
     period \in BumpPeriods, prev \in PrevLevels}

\* hEff as a number, for a velocity at which Math.pow is exact.
hEffNumber(p) == RAdd(hEff(p).hTop, RMul(RInt(6), hEff(p).pow.arg))

surfaceT(f) == f.top

qUpArr(p, f) ==
  [i \in Columns |-> RMul(hEffNumber(p), RSub(surfaceT(f)[i], p.Tair))]
qUpMean(p, f) == RDiv(SumUpTo(qUpArr(p, f), NX - 1), RInt(NX))

\* q = -kB * (Tb - Tprev) / dy, with dy in metres.
qDownArr(p, fp, f) ==
  LET kB == kRow(p, fp)[NY(p, fp) - 1]
      dyM == RDiv(dy(p, fp), RInt(1000))
  IN  [i \in Columns |->
         RDiv(RMul(RSub(RInt(0), kB), RSub(f.bottom[i], f.prev[i])), dyM)]
qDownMean(p, fp, f) == RDiv(SumUpTo(qDownArr(p, fp, f), NX - 1), RInt(NX))

\* qDownAbs without the max.
qDownAbs_Signed(mean) == mean
qDownAbs(mean) == RMaxq(RInt(0), mean)

qTotalPerArea(up, down) == RAdd(up, down)

\* 1e-9
Nano == Rat(1, 1000000000)

\* up / (total + 1e-9), kept as the quotient it is.
upShare(up, total) == [num |-> up, den |-> total, eps |-> Nano]

\* Math.max(1, Math.round(metres / Math.max(1e-9, dx))) for a distance in
\* mm (1e-9 m is 1e-6 mm).
steps(p, mm, up) ==
  Max(1, Round(RDiv(RInt(mm), RMaxq(Rat(1, 1000000), dx(p))), up))
StepsTie(p, mm) == IsHalf(RDiv(RInt(mm), RMaxq(Rat(1, 1000000), dx(p))))

\* The loop of lines 372-377 for one window.
dFoot(sT, n) ==
  MaxUpTo([i \in Columns |-> RAbs(RSub(sT[Min(NX - 1, i + n)], sT[i]))],
          NX - 1)

MetricsResults(p, fp, up, f) ==
  LET qUp == qUpMean(p, f)
      qDown == qDownMean(p, fp, f)
      s5 == steps(p, 50, up[1])
      s10 == steps(p, 100, up[2])
  IN  [solved |-> TRUE, input |-> p, fp |-> fp,
       NY |-> NY(p, fp), dy |-> dy(p, fp), kB |-> kRow(p, fp)[NY(p, fp) - 1],
       surfaceT |-> surfaceT(f),
       qUpMean |-> qUp, qDownMean |-> qDown,
       qDownAbs |-> qDownAbs(qDown),
       qTotalPerArea |-> qTotalPerArea(qUp, qDownAbs(qDown)),
       upShare |-> upShare(qUp, qTotalPerArea(qUp, qDownAbs(qDown))),
       steps5 |-> s5, steps10 |-> s10,
       dFoot5 |-> dFoot(surfaceT(f), s5),
       dFoot10 |-> dFoot(surfaceT(f), s10)]

MetricsInit ==
  /\ debounced \in MetricsParams
  /\ results = NoResults
  /\ field \in Profiles(debounced)
  /\ app = NoApp

\* Lines 340-377 on the relaxed field.
Metrics ==
  /\ ~results.solved
  /\ \E fp \in FPChoices(debounced) :
       \E up \in [1..2 -> BOOLEAN] :
         /\ ~StepsTie(debounced, 50) => up[1]
         /\ ~StepsTie(debounced, 100) => up[2]
         /\ results' = MetricsResults(debounced, fp, up, field)
  /\ UNCHANGED <<debounced, field, app>>

MetricsNext == Metrics

MetricsSpec == MetricsInit /\ [][MetricsNext]_vars

\* The sum over the columns of -kB * (T[i,NY-1] - T[i,NY-2]) / dy, from the
\* rows of the field.
DownFluxSum ==
  LET kB == results.kB
      dyM == RDiv(results.dy, RInt(1000))
      rise == SumUpTo([i \in Columns |-> RSub(field.prev[i], field.bottom[i])],
                      NX - 1)
  IN  RDiv(RMul(kB, rise), dyM)

\* C13: flux balance.  For every solved field the reported downward flux
\* is max(0, mean over the columns of -kB*(T[i,NY-1] - T[i,NY-2])/dy), so
\* it is never negative; the total flux is the mean upward flux plus that
\* downward flux; the upward share is the mean upward flux over
\* (total + 1e-9).
C13_FluxBalance ==
  Solved =>
    /\ REq(RMul(results.qDownMean, RInt(NX)), DownFluxSum)
    /\ RLeq(RInt(0), results.qDownAbs)
    /\ RLeq(RInt(0), results.qDownMean) =>
         REq(results.qDownAbs, results.qDownMean)
    /\ RLess(results.qDownMean, RInt(0)) => REq(results.qDownAbs, RInt(0))
    /\ REq(RSub(results.qTotalPerArea, results.qUpMean), results.qDownAbs)
    /\ RLeq(results.qUpMean, results.qTotalPerArea)
    /\ results.upShare = [num |-> results.qUpMean,
                          den |-> results.qTotalPerArea,
                          eps |-> Rat(1, 1000000000)]

\* A solved field whose row above the bottom is colder than the bottom row
\* (the mean downward flux is negative and 0 is reported) under a surface
\* warmer than the air.
C13_Witness ==
  /\ Solved
  /\ RLess(results.qDownMean, RInt(0))
  /\ REq(results.qDownAbs, RInt(0))
  /\ RLess(RInt(0), results.qUpMean)
  /\ REq(results.qTotalPerArea, results.qUpMean)

\* max |surfaceT[i+n] - surfaceT[i]| over the pairs of columns exactly n
\* apart with both columns in the domain.
MaxOverPairsApart(n) ==
  MaxUpTo([i \in 0..(NX - 1 - n) |->
             RAbs(RSub(results.surfaceT[i + n], results.surfaceT[i]))],
          NX - 1 - n)

\* C14: bare-foot gradient.  dFoot5 (dFoot10) is the maximum of
\* |surfaceT[i+s] - surfaceT[i]| over the pairs of surface columns exactly
\* s = round(0.05/dx) (round(0.10/dx)) columns apart with both columns in
\* the domain; no pair of columns closer together than s contributes.
C14_BareFootGradient ==
  Solved =>
    /\ REq(results.dFoot5, MaxOverPairsApart(results.steps5))
    /\ REq(results.dFoot10, MaxOverPairsApart(results.steps10))

\* +(upShare * 100).toFixed(1) lies in 0..100, that is
\* -0.05 < 100 * qUpMean / (qTotalPerArea + 1e-9) < 100.05, with
\* qTotalPerArea = qUpMean + qDownAbs and the inequalities cleared of the
\* denominator by its sign.
ReportedShareInRange ==
  LET up == results.qUpMean
      down == results.qDownAbs
      eps == results.upShare.eps
      neg == RSub(RInt(0), eps)
  IN  IF RLess(neg, results.qTotalPerArea)
        THEN RLess(neg, RAdd(RMul(RInt(2001), up), down))
        ELSE /\ RLess(results.qTotalPerArea, neg)
             /\ RLess(RMul(RInt(2001), eps),
                      RSub(RSub(RInt(0), up), RMul(RInt(2001), down)))

\* C29: upward share within bounds.  For every solved field, including
\* those whose mean upward flux is negative (surface colder than the air),
\* the reported upward share of the heat flux lies between 0 % and 100 %
\* inclusive.
C29_UpShareWithinBounds ==
  Solved => ReportedShareInRange

(***************************************************************************)
(* The App component: state, the two useDebounce hooks, the memo and the   *)
(* auto-return effect.                                                     *)
(*                                                                         *)
(* One action is one event (a setter called from a slider, the checkbox or *)
(* Reset, a timer callback, the passing of time) with the render it causes *)
(* and the effects of that render; a state update an effect makes is       *)
(* rendered in the same action.  Of the state only Ts, Tr, airVel,         *)
(* autoReturn and loopPosFrac are kept (Ts stands for the parameters that  *)
(* reach the solve directly and that Reset sets, airVel for the one that   *)
(* passes both debounces, loopPosFrac is the cut position slider).         *)
(*                                                                         *)
(* Object identity.  The argument of the second useDebounce is an object   *)
(* literal, a new object in every render, so its effect runs after every   *)
(* render; the timer of the mount is the only one whose object is the one  *)
(* the hook already holds (held), and setV bails out for it.               *)
(*                                                                         *)
(* The relaxation is not evaluated here: a solve on a new parameter object *)
(* returns any of TrAutoValues as hydraulics.Tr_auto, a solve on the       *)
(* values of the solve before it returns the same number again.            *)
(***************************************************************************)
smoothDelay == 400
debounceDelay == 150

\* Time passes in steps of TickMs milliseconds.
TickMs == 100

TsSlider == {Rat(30, 1), Rat(45, 1)}
TrSlider == {Rat(20, 1), Rat(40, 1)}
AirVelSlider == {Rat(0, 1), Rat(1, 1)}
LoopPosFracSlider == {Rat(1, 4), Rat(1, 2)}
TrAutoValues == {Rat(-3, 1), Rat(39034, 1000)}

\* The object literal of the render in state a.
Literal(a) ==
  [Ts |-> a.Ts, Tr |-> a.Tr, airVel |-> a.airVelSmooth,
   autoReturn |-> a.autoReturn, loopPosFrac |-> a.loopPosFrac]

Timer(value, delay, held) ==
  [value |-> value, left |-> delay, age |-> 0, held |-> held]

\* The effect of useDebounce without its cleanup.
StartTimer_NoCleanup(timers, value, delay) ==
  timers \cup {Timer(value, delay, FALSE)}
\* The effect of useDebounce when its value changed: the cleanup of the
\* effect before it (clearTimeout), then setTimeout.
StartTimer(timers, value, delay) == {Timer(value, delay, FALSE)}

\* (+x.toFixed(2)): to the nearest hundredth; on an exact half either way.
Round2(x, up) == Rat(Round(RMul(x, RInt(100)), up), 100)

\* The auto-return effect goes on although autoReturn is off.
EffectActive_IgnoringAutoReturn(res, autoReturn) == res.solved
\* not (!results?.hydraulics || !autoReturn)
EffectActive(res, autoReturn) == res.solved /\ autoReturn

calc(Ts, res) == RMaxq(RInt(0), RMinq(Ts, res.hydraulics.Tr_auto))

\* Math.abs(calc - Tr) > 0.05
Differs(c, Tr) == RLess(Rat(5, 100), RAbs(RSub(c, Tr)))

NoEffect == [ran |-> FALSE, wrote |-> FALSE]
\* The last write of the auto-return effect since the last event of the
\* user: the input of the solve it read and the Tr it wrote.
NoChain == [on |-> FALSE]
NoFired == [hook |-> "none"]

\* One run of the auto-return effect in state a with the memo's result res.
AutoReturnEffect(a, res, up) ==
  LET c == calc(a.Ts, res)
      write == EffectActive(res, a.autoReturn) /\ Differs(c, a.Tr)
  IN  [ran |-> TRUE, wrote |-> write, calc |-> c,
       TrSeen |-> a.Tr, TsSeen |-> a.Ts,
       autoReturn |-> a.autoReturn,
       from |-> res.input, TrAuto |-> res.hydraulics.Tr_auto,
       chain |-> a.chain,
       value |-> IF write THEN Round2(c, up) ELSE a.Tr]

\* The render of state a after the render of state prev, and its effects:
\* both useDebounce effects, then the auto-return effect (which runs when
\* results.hydraulics, autoReturn, Ts or Tr changed); a setTr of the effect
\* is rendered next.  log is the run of the effect that wrote, if one did.
RECURSIVE Commit(_, _, _, _, _, _)
Commit(a, prev, res, solvedNow, up, log) ==
  LET a1 == [a EXCEPT
               !.smoothTimers = IF a.airVel # prev.airVel
                                  THEN StartTimer(@, a.airVel, smoothDelay)
                                  ELSE @,
               !.debTimers = StartTimer(@, Literal(a), debounceDelay)]
      runs == \/ solvedNow
              \/ a.autoReturn # prev.autoReturn
              \/ a.Ts # prev.Ts
              \/ a.Tr # prev.Tr
      eff == IF runs THEN AutoReturnEffect(a1, res, up) ELSE NoEffect
  IN  IF eff.wrote
        THEN Commit([a1 EXCEPT !.Tr = eff.value,
                               !.chain = [on |-> TRUE, from |-> res.input,
                                          to |-> eff.value]],
                    a1, res, FALSE, up, eff)
        ELSE [a1 EXCEPT !.effect = IF log.wrote THEN log ELSE eff]

\* The memo on a parameter object.
AppResults(p, TrAuto) ==
  [solved |-> TRUE, input |-> p, hydraulics |-> [Tr_auto |-> TrAuto]]

\* The numbers a solve on p may return after the result res.
TrAutoOf(p, res) ==
  IF res.solved /\ res.input = p THEN {res.hydraulics.Tr_auto}
                                 ELSE TrAutoValues

\* The mount: the first render with the useState defaults, the memo on the
\* first object, the timers of both hooks; the auto-return effect runs and
\* returns at once (autoReturn is false).
Mounted ==
  [mounted |-> TRUE,
   Ts |-> Rat(45, 1), Tr |-> Rat(40, 1), airVel |-> Rat(0, 1),
   autoReturn |-> FALSE, loopPosFrac |-> Rat(1, 2),
   airVelSmooth |-> Rat(0, 1),
   smoothTimers |-> {Timer(Rat(0, 1), smoothDelay, FALSE)},
   debTimers |-> {Timer([Ts |-> Rat(45, 1), Tr |-> Rat(40, 1),
                         airVel |-> Rat(0, 1), autoReturn |-> FALSE,
                         loopPosFrac |-> Rat(1, 2)],
                        debounceDelay, TRUE)},
   chain |-> NoChain, touched |-> FALSE,
   effect |-> NoEffect, fired |-> NoFired, ev |-> "mount"]

AppInit ==
  /\ app = Mounted
  /\ debounced = Literal(Mounted)
  /\ \E h \in TrAutoValues : results = AppResults(debounced, h)
  /\ field = NoField

\* The state after an event handler that leaves the state a, the render
\* it causes and the effects of that render.
Handled(name, a, up) ==
  [Commit([a EXCEPT !.chain = NoChain, !.touched = TRUE],
          app, results, FALSE, up, NoEffect)
     EXCEPT !.ev = name, !.fired = NoFired]

\* The setters: React renders when the value is another one.
SetTs ==
  /\ \E v \in TsSlider \ {app.Ts} : \E up \in BOOLEAN :
       app' = Handled("setTs", [app EXCEPT !.Ts = v], up)
  /\ UNCHANGED <<debounced, results, field>>

SetTr ==
  /\ \E v \in TrSlider \ {app.Tr} : \E up \in BOOLEAN :
       app' = Handled("setTr", [app EXCEPT !.Tr = v], up)
  /\ UNCHANGED <<debounced, results, field>>

SetAirVel ==
  /\ \E v \in AirVelSlider \ {app.airVel} : \E up \in BOOLEAN :
       app' = Handled("setAirVel", [app EXCEPT !.airVel = v], up)
  /\ UNCHANGED <<debounced, results, field>>

SetAutoReturn ==
  /\ \E up \in BOOLEAN :
       app' = Handled("setAutoReturn",
                      [app EXCEPT !.autoReturn = ~app.autoReturn], up)
  /\ UNCHANGED <<debounced, results, field>>

\* The cut position slider (line 849).
SetLoopPosFrac ==
  /\ \E v \in LoopPosFracSlider \ {app.loopPosFrac} : \E up \in BOOLEAN :
       app' = Handled("setLoopPosFrac", [app EXCEPT !.loopPosFrac = v], up)
  /\ UNCHANGED <<debounced, results, field>>

\* The Reset button: the setters it calls with their defaults, rendered
\* once.
Reset ==
  LET a == [app EXCEPT !.Ts = Rat(45, 1), !.Tr = Rat(40, 1),
                       !.airVel = Rat(0, 1), !.autoReturn = FALSE]
  IN  /\ a # app
      /\ \E up \in BOOLEAN : app' = Handled("reset", a, up)
      /\ UNCHANGED <<debounced, results, field>>

Pending == app.smoothTimers \cup app.debTimers
Aged(t) ==
  [t EXCEPT !.left = Max(0, @ - TickMs), !.age = @ + TickMs]

\* TickMs pass; a timer that is due runs before more time passes.
Tick ==
  /\ Pending # {}
  /\ \A t \in Pending : t.left > 0
  /\ app' = [app EXCEPT !.smoothTimers = {Aged(t) : t \in @},
                        !.debTimers = {Aged(t) : t \in @},
                        !.effect = NoEffect, !.fired = NoFired,
                        !.ev = "tick"]
  /\ UNCHANGED <<debounced, results, field>>

\* The timer callback of useDebounce(airVel, 400): setV(value).
FireSmooth ==
  \E t \in app.smoothTimers :
    /\ t.left = 0
    /\ LET a == [app EXCEPT !.smoothTimers = @ \ {t},
                            !.airVelSmooth = t.value]
           f == [hook |-> "airVelSmooth", value |-> t.value, age |-> t.age,
                 input |-> app.airVel]
       IN  IF t.value = app.airVelSmooth
             THEN app' = [a EXCEPT !.effect = NoEffect, !.fired = f,
                                   !.ev = "fireSmooth"]
             ELSE \E up \in BOOLEAN :
                    app' = [Commit(a, app, results, FALSE, up, NoEffect)
                              EXCEPT !.fired = f, !.ev = "fireSmooth"]
    /\ UNCHANGED <<debounced, results, field>>

\* The timer callback of useDebounce({...}, 150): setV(value); when the
\* object is another one than the hook holds, the render returns it as
\* debounced and the memo runs on it.
FireDebounced ==
  \E t \in app.debTimers :
    /\ t.left = 0
    /\ LET a == [app EXCEPT !.debTimers = @ \ {t}]
           f == [hook |-> "debounced", value |-> t.value, age |-> t.age,
                 input |-> Literal(app),
                 solved |-> ~t.held,
                 again |-> ~t.held /\ ~app.touched]
       IN  IF t.held
             THEN /\ app' = [a EXCEPT !.effect = NoEffect, !.fired = f,
                                      !.ev = "fireDebounced"]
                  /\ UNCHANGED <<debounced, results>>
             ELSE /\ debounced' = t.value
                  /\ \E h \in TrAutoOf(t.value, results) :
                       results' = AppResults(t.value, h)
                  /\ \E up \in BOOLEAN :
                       app' = [Commit([a EXCEPT !.touched = FALSE],
                                      app, results', TRUE, up, NoEffect)
                                 EXCEPT !.fired = f, !.ev = "fireDebounced"]
    /\ UNCHANGED field

AppNext ==
  \/ SetTs \/ SetTr \/ SetAirVel \/ SetAutoReturn \/ SetLoopPosFrac
  \/ Reset
  \/ Tick \/ FireSmooth \/ FireDebounced

AppSpec == AppInit /\ [][AppNext]_vars

\* C15: auto-return feedback writes.  The auto-return effect writes Tr only
\* while autoReturn is enabled; every value it writes is
\* max(0, min(Ts, Tr_auto)) rounded to 2 decimals and lies in [0, Ts]; it
\* writes nothing when that value differs from the current Tr by at most
\* 0.05; with autoReturn disabled Tr changes only through the slider or
\* Reset.
C15_AutoReturnWrites ==
  /\ [](app.effect.wrote =>
          /\ app.effect.autoReturn
          /\ \E up \in BOOLEAN :
               app.effect.value =
                 Round2(RMaxq(RInt(0), RMinq(app.effect.TsSeen,
                                             app.effect.TrAuto)), up)
          /\ RLeq(RInt(0), app.effect.value)
          /\ RLeq(app.effect.value, app.effect.TsSeen)
          /\ app.Tr = app.effect.value)
  /\ []((app.effect.ran /\ ~Differs(app.effect.calc, app.effect.TrSeen)) =>
          ~app.effect.wrote)
  /\ [][(~app'.autoReturn /\ app'.Tr # app.Tr) =>
          app'.ev \in {"setTr", "reset"}]_vars

\* The effect has written a rounded value: Tr_auto = 39.034 became
\* Tr = 39.03 with autoReturn on.
C15_Witness ==
  /\ app.effect.wrote
  /\ app.autoReturn
  /\ app.effect.TrAuto = Rat(39034, 1000)
  /\ app.Tr = Rat(3903, 100)
  /\ app.effect.TrSeen # app.Tr

\* C16: no stale result is merged.  Whenever the auto-return effect writes
\* Tr, the hydraulic result it reads was computed by a solve whose input
\* parameters equal the current parameter values.
C16_NoStaleResult ==
  app.effect.wrote => app.effect.from.Ts = app.effect.TsSeen

\* C17: debouncing of parameter changes.  Each useDebounce has at most one
\* pending timer; a change of its input leaves exactly the timer of the new
\* input with the whole delay ahead; a timer callback hands over a value
\* that is the hook's input at that moment and has waited the whole delay;
\* the memo has run on no other object than the one handed over.
C17_Debounce ==
  /\ Cardinality(app.smoothTimers) <= 1
  /\ Cardinality(app.debTimers) <= 1
  /\ (app.ev \in {"setAirVel", "reset"} /\ app.airVel # app.airVelSmooth
      /\ app.smoothTimers # {}) =>
       \A t \in app.smoothTimers : t.value = app.airVel
  /\ app.ev = "setAirVel" =>
       app.smoothTimers = {Timer(app.airVel, smoothDelay, FALSE)}
  /\ app.ev \in {"setTs", "setTr", "setAirVel", "setAutoReturn",
                "setLoopPosFrac", "reset"} =>
       app.debTimers = {Timer(Literal(app), debounceDelay, FALSE)}
  /\ app.fired.hook = "airVelSmooth" =>
       /\ app.fired.value = app.fired.input
       /\ app.fired.age >= smoothDelay
  /\ app.fired.hook = "debounced" =>
       /\ app.fired.value = app.fired.input
       /\ app.fired.age >= debounceDelay
  /\ results.input = debounced

\* A timer callback has handed over an object with Ts = 30 after the mount
\* object (Ts = 45): the memo has run on it.
C17_Witness ==
  /\ app.fired.hook = "debounced"
  /\ app.ev = "fireDebounced"
  /\ debounced.Ts = Rat(30, 1)
  /\ results.input.Ts = Rat(30, 1)
  /\ app.fired.age >= debounceDelay

(***************************************************************************)
(* The relaxation loop, node by node.                                      *)
(*                                                                         *)
(* The grid is GridNX by GridNY nodes.  A node holds the name of the       *)
(* assignment that wrote it last, not a number: a boundary value (belowT,  *)
(* twm, TpipeArr[k]), the initial blend of its row, or the Robin, mat or   *)
(* SOR assignment at node (i, j) in sweep it.  An edge copy takes the name *)
(* its source holds at that moment.  Two nodes with the same name hold the *)
(* same number; two names may stand for the same number.                   *)
(*                                                                         *)
(* The disc test of lines 216-221 is not evaluated here: the discs of the  *)
(* pipes are sets of nodes, some of them reaching the edges of the grid    *)
(* and each other, so the sweeps are checked for more masks than the disc  *)
(* test yields (it is evaluated in the pipe mask section further down).    *)
(***************************************************************************)
GridNX == 4
GridNY == 4
iters == 1200

GridColumns == 0..(GridNX - 1)
GridRows == 0..(GridNY - 1)
GridNodes == GridColumns \X GridRows

Val(kind, i, j, it) == [kind |-> kind, i |-> i, j |-> j, it |-> it]
ValBelowT == Val("belowT", -1, -1, -1)
ValTwm == Val("twm", -1, -1, -1)
ValTpipe(k) == Val("TpipeArr", k, -1, -1)

\* A disc through column 1 from the top row to the bottom row, and a disc
\* over the two lowest rows.
DiscColumn == {<<1, j>> : j \in GridRows}
DiscLow == {n \in GridNodes : n[2] >= GridNY - 2}

\* under.type === 'mat' and under.phi of the inputs: the two mat presets'
\* kind of value (1/2), a missing phi, and values at and past both ends of
\* [0, 1].
Under(mat, hasPhi, phi) == [mat |-> mat, hasPhi |-> hasPhi, phi |-> phi]
NoMat == Under(FALSE, FALSE, Rat(0, 1))

SweepParams ==
  {[discs |-> <<>>, under |-> NoMat],
   [discs |-> <<DiscColumn>>, under |-> Under(TRUE, TRUE, Rat(1, 2))],
   [discs |-> <<DiscColumn>>, under |-> Under(TRUE, FALSE, Rat(0, 1))],
   [discs |-> <<DiscColumn>>, under |-> Under(TRUE, TRUE, Rat(1, 1))],
   [discs |-> <<DiscColumn>>, under |-> Under(TRUE, TRUE, Rat(3, 2))],
   [discs |-> <<DiscColumn>>, under |-> Under(TRUE, TRUE, Rat(-1, 2))],
   [discs |-> <<DiscLow>>, under |-> NoMat],
   [discs |-> <<DiscLow, DiscColumn>>, under |-> NoMat]}

\* The pipes whose disc holds node n: Math.hypot(x - pc.x, y - pc.y) <= r.
Hit(p, n) == {k \in 1..Len(p.discs) : n \in p.discs[k]}

\* The mask when the loops over the nodes run over every row and column.
pipeMask_EveryRow(p, n) == Hit(p, n) # {}
\* pipeMask[idx(i,j)]: the loops run j = 1..NY-2 and i = 1..NX-2.
pipeMask(p, n) ==
  /\ n[2] \in 1..(GridNY - 2)
  /\ n[1] \in 1..(GridNX - 2)
  /\ Hit(p, n) # {}

\* pipeLabel[idx(i,j)]: the first pipe that holds the node, -1 without one.
pipeLabel(p, n) ==
  IF pipeMask(p, n)
    THEN (CHOOSE k \in Hit(p, n) : \A m \in Hit(p, n) : k <= m) - 1
    ELSE -1

\* The field before the first sweep: row j holds
\* belowT * (1 - frac) + Tair * frac with frac = 1 - j/(NY-1), which is
\* belowT on the bottom row.
InitialT(n) ==
  IF n[2] = GridNY - 1 THEN ValBelowT ELSE Val("initial", -1, n[2], -1)

\* The pipe node takes the mean water temperature.
Tpipe_Mean(p, n) == ValTwm
\* Tpipe = (label >= 0) ? TpipeArr[clamp(label)] : twm
Tpipe(p, n) ==
  IF pipeLabel(p, n) >= 0 THEN ValTpipe(pipeLabel(p, n)) ELSE ValTwm

\* w = Math.max(0, Math.min(1, under.phi ?? 0.5))
ContactShare(under) ==
  RMaxq(RInt(0), RMinq(RInt(1), IF under.hasPhi THEN under.phi
                                                ELSE Rat(1, 2)))

\* w*Tpipe + (1-w)*Trob, Trob the Robin value that reads T[i, j+1]:
\* 1*Tpipe + 0*Trob is Tpipe, 0*Tpipe + 1*Trob is Trob.
Blend(w, tp, n, it) ==
  IF REq(w, RInt(1)) THEN tp
  ELSE IF REq(w, RInt(0)) THEN Val("Trob", n[1], n[2], it)
  ELSE Val("mat", n[1], n[2], it)

\* The value of a pipe node: Tpipe, or with a mat the blend.
PipeNode(p, n, it) ==
  IF p.under.mat THEN Blend(ContactShare(p.under), Tpipe(p, n), n, it)
                 ELSE Tpipe(p, n)

\* The edge columns copy the column next to them at another distance.
Mirror_TwoColumns(i) == IF i = 0 THEN 1 ELSE GridNX - 3
\* The column an edge column copies: 1 for column 0, NX-2 for column NX-1.
Mirror(i) == IF i = 0 THEN 1 ELSE GridNX - 2

\* The value the loop body assigns to node n in sweep it on the field T.
Assigned(p, T, n, it) ==
  IF n[2] = 0
    THEN IF pipeMask(p, n) THEN PipeNode(p, n, it)
                           ELSE Val("robin", n[1], 0, it)
  ELSE IF n[2] = GridNY - 1
    THEN IF pipeMask(p, n) THEN ValTwm ELSE ValBelowT
  ELSE IF n[1] = 0 \/ n[1] = GridNX - 1
    THEN T[<<Mirror(n[1]), n[2]>>]
  ELSE IF pipeMask(p, n) THEN PipeNode(p, n, it)
  ELSE Val("sor", n[1], n[2], it)

\* The loop stops one sweep short.
LoopContinues_OneShort(it) == it < iters - 1
\* it < iters
LoopContinues(it) == it < iters

\* The relaxation before its first sweep.
FieldAt(p) ==
  [made |-> TRUE,
   T |-> [n \in GridNodes |-> InitialT(n)],
   before |-> [n \in GridNodes |-> InitialT(n)],
   it |-> 0, j |-> 0, i |-> 0,
   visits |-> [n \in GridNodes |-> 0],
   twmTaken |-> FALSE, done |-> FALSE]

SweepInit ==
  /\ debounced \in SweepParams
  /\ results = NoResults
  /\ field = FieldAt(debounced)
  /\ app = NoApp

\* The loop body on node (i, j); visits counts the bodies run on a node,
\* before is the field as it was when the sweep began.
Visited(f) ==
  LET n == <<f.i, f.j>>
  IN  [f EXCEPT
         !.T[n] = Assigned(debounced, f.T, n, f.it),
         !.before = IF f.j = 0 /\ f.i = 0 THEN f.T ELSE @,
         !.visits[n] = @ + 1,
         !.twmTaken = @ \/ (f.j = GridNY - 1 /\ pipeMask(debounced, n)),
         !.i = f.i + 1]

Sweeping == field.made /\ ~field.done /\ LoopContinues(field.it)

\* Lines 267-293: a node of the top row.
TopRowNode ==
  /\ Sweeping
  /\ field.j = 0
  /\ field.i < GridNX
  /\ field' = Visited(field)
  /\ UNCHANGED <<debounced, results, app>>

\* Lines 294-296: the two corner nodes copy their neighbours.
TopRowCorners ==
  /\ Sweeping
  /\ field.j = 0
  /\ field.i = GridNX
  /\ field' = [field EXCEPT
                 !.T = [@ EXCEPT ![<<0, 0>>] = field.T[<<1, 0>>],
                                 ![<<GridNX - 1, 0>>] =
                                    field.T[<<GridNX - 2, 0>>]],
                 !.j = 1, !.i = 0]
  /\ UNCHANGED <<debounced, results, app>>

\* Lines 306-336: a node of an interior row.
InteriorRowNode ==
  /\ Sweeping
  /\ field.j \in 1..(GridNY - 2)
  /\ LET f == Visited(field)
     IN  field' = IF f.i = GridNX THEN [f EXCEPT !.j = @ + 1, !.i = 0]
                                  ELSE f
  /\ UNCHANGED <<debounced, results, app>>

\* Lines 298-304: a node of the bottom row; after the last one the sweep
\* is over.
BottomRowNode ==
  /\ Sweeping
  /\ field.j = GridNY - 1
  /\ LET f == Visited(field)
     IN  field' = IF f.i = GridNX
                    THEN [f EXCEPT !.it = @ + 1, !.j = 0, !.i = 0]
                    ELSE f
  /\ UNCHANGED <<debounced, results, app>>

\* The part of the returned object the relaxation makes.
Returned(f) == [solved |-> TRUE, T |-> f.T, it |-> f.it]

\* The loop is left and the field goes into the returned object.
SweepReturn ==
  /\ field.made /\ ~field.done
  /\ ~LoopContinues(field.it)
  /\ field' = [field EXCEPT !.done = TRUE]
  /\ results' = Returned(field)
  /\ UNCHANGED <<debounced, app>>

SweepNext ==
  \/ TopRowNode \/ TopRowCorners \/ InteriorRowNode \/ BottomRowNode
  \/ SweepReturn

SweepSpec == SweepInit /\ [][SweepNext]_vars

InteriorRows == 1..(GridNY - 2)

Passed(n) ==
  \/ n[2] < field.j
  \/ n[2] = field.j /\ n[1] < field.i

\* C19: fixed iteration budget.  For every parameter set the loop is left
\* after exactly 1200 sweeps; in every sweep the loop body runs once on
\* every node, in row order (so a node has been visited once more than the
\* number of finished sweeps exactly when it comes before the loop's
\* position), whatever the field holds.
C19_FixedIterationBudget ==
  field.made =>
    /\ field.it <= iters
    /\ \A n \in GridNodes :
         field.visits[n] = field.it + (IF Passed(n) THEN 1 ELSE 0)
    /\ field.done <=> results.solved
    /\ field.done =>
         /\ field.it = iters
         /\ results.it = iters
         /\ \A n \in GridNodes : field.visits[n] = iters

\* The loop has been left on a field with mat pipe nodes after 1200
\* visits of each node.
C19_Witness ==
  /\ field.done
  /\ debounced.under.mat
  /\ field.it = 1200
  /\ \A n \in GridNodes : field.visits[n] = 1200
  /\ results.T[<<1, 1>>].kind = "mat"
  /\ results.T[<<1, 1>>].it = 1199

BottomRow == {<<i, GridNY - 1>> : i \in GridColumns}

\* C20: bottom Dirichlet boundary.  Every node of the bottom row holds
\* belowT before the first sweep, after every node visit and sweep and in
\* the returned field; the mean(Ts,Tr) branch of the bottom row is never
\* taken, also when a pipe disc reaches the bottom row.
C20_BottomDirichlet ==
  field.made =>
    /\ \A n \in BottomRow : field.T[n] = ValBelowT
    /\ \A n \in BottomRow : ~pipeMask(debounced, n)
    /\ ~field.twmTaken
    /\ results.solved => \A n \in BottomRow : results.T[n] = ValBelowT

\* The field is returned for a pipe disc that reaches the bottom row: the
\* row above it holds pipe nodes, the bottom row belowT.
C20_Witness ==
  /\ field.done
  /\ \E k \in 1..Len(debounced.discs) : BottomRow \subseteq debounced.discs[k]
  /\ results.T[<<1, GridNY - 2>>].kind = "TpipeArr"
  /\ \A n \in BottomRow : results.T[n] = ValBelowT
  /\ field.visits[<<1, GridNY - 1>>] = iters

\* The nodes of the mask the loop body has run on at least once.
VisitedPipeNodes ==
  {n \in GridNodes : pipeMask(debounced, n) /\ field.visits[n] >= 1}

\* C21: pipe nodes are Dirichlet.  Without a mat every node of the mask
\* holds, from its first visit on and after every sweep, TpipeArr[label]
\* of the pipe it is labelled with; with a mat it holds the blend
\* w*Tpipe + (1-w)*Trob of its last visit with w = phi limited to [0, 1]
\* (1/2 when phi is missing), which is Tpipe when phi >= 1.
C21_PipeNodesDirichlet ==
  field.made =>
    \A n \in VisitedPipeNodes :
      LET u == debounced.under
          w == ContactShare(u)
          last == IF Passed(n) THEN field.it ELSE field.it - 1
      IN  /\ ~u.mat => field.T[n] = ValTpipe(pipeLabel(debounced, n))
          /\ pipeLabel(debounced, n) \in 0..(Len(debounced.discs) - 1)
          /\ RLeq(RInt(0), w) /\ RLeq(w, RInt(1))
          /\ (u.mat /\ u.hasPhi /\ RLeq(RInt(1), u.phi)) =>
               field.T[n] = ValTpipe(pipeLabel(debounced, n))
          /\ (u.mat /\ RLess(w, RInt(1))) =>
               /\ field.T[n].kind = (IF REq(w, RInt(0)) THEN "Trob"
                                                        ELSE "mat")
               /\ field.T[n].it = last
               /\ <<field.T[n].i, field.T[n].j>> = n

\* The field is returned with a mat of phi = 3/2: the pipe nodes hold
\* TpipeArr[0] as without a mat.
C21_Witness ==
  /\ field.done
  /\ debounced.under.mat
  /\ debounced.under.phi = Rat(3, 2)
  /\ pipeMask(debounced, <<1, 1>>)
  /\ results.T[<<1, 1>>] = ValTpipe(0)
  /\ results.T[<<0, 1>>] = results.T[<<1, 1>>]

(***************************************************************************)
(* The pipe mask on the grid of the solve (lines 211-223), with the disc   *)
(* test evaluated: node (i, j) lies at x = i*dx, y = j*dy and pipe k has   *)
(* its centre at ((k + 0.5)*S, pipeCenterY) and the radius D/2, all in mm. *)
(* The two squares of Math.hypot are taken only for a node within r of     *)
(* the centre in both directions; any other node is outside the disc.      *)
(***************************************************************************)
MaskParams ==
  [spacing : SpacingInputs, pipeOD : PipeODInputs, screedThk : ScreedThkInputs,
   screed : {PRESETS_SCREED[2]}, cover : {PRESETS_COVER[1]},
   under : Range(PRESETS_UNDERLAY),
   insul : {PRESETS_INSULATION[3], PRESETS_INSULATION[5]}, nPipes : {3}]

PipeIndices(p) == 0..(Max(1, p.nPipes) - 1)

\* Every pipe at the place of pipe 0.
pipeCenters_Stacked(p) ==
  [k \in PipeIndices(p) |-> [x |-> Rat(S(p), 2), y |-> pipeCenterY(p)]]
\* pipeCenters[k] = { x: (k + 0.5) * S, y: pipeCenterY }
pipeCenters(p) ==
  [k \in PipeIndices(p) |-> [x |-> Rat((2 * k + 1) * S(p), 2), y |-> pipeCenterY(p)]]

\* r = 0.5 * D
PipeRadius(p) == Rat(D(p), 2)

Sq(a) == Rat(a.n * a.n, a.d * a.d)

\* Math.hypot(x - pc.x, y - pc.y) against r: "in" below r, "on" at r
\* exactly, "out" above it.
Hypot(x, y, pc, r) ==
  LET ox == RAbs(RSub(x, pc.x))
      oy == RAbs(RSub(y, pc.y))
      rest == RSub(Sq(r), Sq(oy))
  IN  IF ~RLeq(ox, r) \/ ~RLeq(oy, r) THEN "out"
      ELSE IF RLess(Sq(ox), rest) THEN "in"
      ELSE IF RLeq(Sq(ox), rest) THEN "on"
      ELSE "out"

\* Math.hypot(x - pc.x, y - pc.y) <= r.  For a node exactly on the circle
\* the rounded hypot may come out on either side of r (le tells which).
InDisc(x, y, pc, r, le) ==
  Hypot(x, y, pc, r) = "in" \/ (le /\ Hypot(x, y, pc, r) = "on")

\* The nodes of the loops of lines 214-222 (j = 1..NY-2, i = 1..NX-2)
\* within r of some pipe centre in both directions.
NearNodes(p, fp) ==
  LET pc == pipeCenters(p)
      r == PipeRadius(p)
      hx == dx(p)
      hy == dy(p, fp)
      cols == [k \in PipeIndices(p) |->
                 {i \in 1..(NX - 2) :
                    RLeq(RAbs(RSub(RMul(RInt(i), hx), pc[k].x)), r)}]
      rows == [k \in PipeIndices(p) |->
                 {j \in 1..(NY(p, fp) - 2) :
                    RLeq(RAbs(RSub(RMul(RInt(j), hy), pc[k].y)), r)}]
  IN  UNION {cols[k] \X rows[k] : k \in PipeIndices(p)}

\* The nodes of the loops that lie exactly on the circle of a pipe.
OnCircle(p, fp) ==
  LET pc == pipeCenters(p)
      r == PipeRadius(p)
      hx == dx(p)
      hy == dy(p, fp)
  IN  {n \in NearNodes(p, fp) :
         \E k \in PipeIndices(p) :
           Hypot(RMul(RInt(n[1]), hx), RMul(RInt(n[2]), hy), pc[k], r) = "on"}

\* The loops of lines 214-222 with k in order and a break at the first
\* hit.  pipeMask is the set of nodes set to 1 and pipeLabel holds the
\* nodes whose label was written (the others keep -1); le is the set of
\* nodes on a circle that the test takes as inside.
Mask(p, fp, le) ==
  LET pc == pipeCenters(p)
      r == PipeRadius(p)
      hx == dx(p)
      hy == dy(p, fp)
      hits == [n \in NearNodes(p, fp) |->
                 {k \in PipeIndices(p) :
                    InDisc(RMul(RInt(n[1]), hx), RMul(RInt(n[2]), hy),
                           pc[k], r, n \in le)}]
      marked == {n \in DOMAIN hits : hits[n] # {}}
  IN  [solved |-> TRUE, input |-> p, fp |-> fp, le |-> le,
       NY |-> NY(p, fp), dx |-> hx, dy |-> hy,
       pipeCenters |-> pc, r |-> r,
       pipeMask |-> marked,
       pipeLabel |-> [n \in marked |->
                        CHOOSE k \in hits[n] : \A m \in hits[n] : k <= m]]

MaskInit ==
  /\ debounced \in MaskParams
  /\ results = NoResults
  /\ field = NoField
  /\ app = NoApp

Mark ==
  /\ ~results.solved
  /\ \E fp \in FPChoices(debounced) :
       \E le \in SUBSET OnCircle(debounced, fp) :
         results' = Mask(debounced, fp, le)
  /\ UNCHANGED <<debounced, field, app>>

MaskNext == Mark

MaskSpec == MaskInit /\ [][MaskNext]_vars

\* The pipes whose disc holds node n of the solved grid.
DiscsHolding(n) ==
  {k \in DOMAIN results.pipeCenters :
     InDisc(RMul(RInt(n[1]), results.dx), RMul(RInt(n[2]), results.dy),
            results.pipeCenters[k], results.r, n \in results.le)}

\* C27: pipe mask.  Every marked node is strictly interior (row 1..NY-2,
\* column 1..NX-2); the nodes with a label are the marked nodes and every
\* label is a pipe index 0..n-1; every marked node lies inside the disc of
\* the pipe it is labelled with and of no other pipe.
C27_PipeMaskInterior ==
  Solved =>
    /\ \A n \in results.pipeMask :
         /\ n[1] \in 1..(NX - 2)
         /\ n[2] \in 1..(results.NY - 2)
         /\ DiscsHolding(n) = {results.pipeLabel[n]}
    /\ DOMAIN results.pipeLabel = results.pipeMask
    /\ \A n \in DOMAIN results.pipeLabel :
         results.pipeLabel[n] \in 0..(results.input.nPipes - 1)

\* A grid at the narrowest spacing the slider offers (50 mm, solved as
\* 80 mm) with the widest pipe (20 mm): each of the three pipes has marked
\* nodes.
C27_Witness ==
  /\ Solved
  /\ results.input.spacing = 50
  /\ results.input.pipeOD = 25
  /\ \A k \in PipeIndices(results.input) :
       \E n \in results.pipeMask : results.pipeLabel[n] = k

(***************************************************************************)
(* The bubble-foil branch of the underlay (lines 145-154) as a function of *)
(* the gap thickness: an underlay object of type 'bubble' with t from 1 mm *)
(* to MaxGap mm (the preset has 5 mm), in exact arithmetic.                *)
(***************************************************************************)
MaxGap == 120

Bubble(t) ==
  [id |-> "bubble", type |-> "bubble", hasT |-> TRUE, t |-> t, phi |-> 0]

UnderlayParams == [under : {Bubble(t) : t \in 1..MaxGap}]

\* underInfo of the bubble branch, and the quotient tGap / Rgap before the
\* floor is applied.
underInfo(p) ==
  [solved |-> TRUE, input |-> p, type |-> p.under.type,
   tGap |-> Metres(p.under.t),
   Rair_base |-> Rair_base(p), rad_factor |-> rad_factor, Rgap |-> Rgap(p),
   quotient |-> RDiv(Metres(p.under.t), Rgap(p)),
   kUnder |-> kUnder(p)]

UnderlayInit ==
  /\ debounced \in UnderlayParams
  /\ results = NoResults
  /\ field = NoField
  /\ app = NoApp

Underlay ==
  /\ ~results.solved
  /\ IsBubble(debounced)
  /\ results' = underInfo(debounced)
  /\ UNCHANGED <<debounced, field, app>>

UnderlayNext == Underlay

UnderlaySpec == UnderlayInit /\ [][UnderlayNext]_vars

\* C30: bubble-foil conductivity.  For a bubble-foil underlay of any gap
\* thickness t > 0 the equivalent conductivity kUnder is
\* 0.01/(0.11*1.6) = 25/440 W/(m K), the same for every t, and it is the
\* quotient tGap/Rgap itself: the floor of 0.002 W/(m K) is never the
\* value used.
C30_BubbleConductivity ==
  Solved =>
    /\ REq(results.kUnder, RDiv(Rat(1, 100), RMul(Rat(11, 100), Rat(16, 10))))
    /\ REq(results.kUnder, results.quotient)
    /\ RLess(Rat(2, 1000), results.quotient)

\* The bubble branch has run for a gap other than the preset's 5 mm, with
\* a gap resistance other than the preset's 0.088 m2K/W.
C30_Witness ==
  /\ Solved
  /\ results.type = "bubble"
  /\ results.input.under.t = 12
  /\ REq(results.Rgap, Rat(2112, 10000))
  /\ REq(results.kUnder, Rat(25, 440))

\* C22: Reset restores defaults.  After the Reset button every input of the
\* solve has its default: Ts 45, Tr 40, airVel 0, autoReturn off, cut
\* position 0.5.
C22_ResetRestoresDefaults ==
  app.mounted /\ app.ev = "reset" =>
    /\ app.Ts = Rat(45, 1)
    /\ app.Tr = Rat(40, 1)
    /\ app.airVel = Rat(0, 1)
    /\ ~app.autoReturn
    /\ app.loopPosFrac = Rat(1, 2)

\* C24: quiescence.  With auto-return off the solve runs again only after
\* an input changed: no timer callback makes the memo run when the user
\* has done nothing since the solve before it.
C24_Quiescence ==
  app.mounted /\ app.fired.hook = "debounced" /\ ~app.autoReturn =>
    ~app.fired.again

\* C25: the auto-return feedback settles.  The solve is a function of its
\* input, so with the other inputs held a feedback that writes b from the
\* solve of Tr = a and then a from the solve of Tr = b goes on for ever; no
\* write of the effect returns Tr to the value the write before it started
\* from.
C25_FeedbackSettles ==
  (/\ app.mounted
   /\ app.effect.wrote
   /\ app.effect.chain.on
   /\ app.effect.from.Tr = app.effect.chain.to
   /\ app.effect.from = [app.effect.chain.from
                           EXCEPT !.Tr = app.effect.chain.to]) =>
    app.effect.value # app.effect.chain.from.Tr
====
